---- MODULE Spec2Model ----
(***************************************************************************)
(* Model of the rule-based text parser of main.py: parse_text_to_json and  *)
(* the functions it calls (parse_smart_row, normalize_commodity_name,      *)
(* determine_origin, determine_unit).                                      *)
(*                                                                         *)
(* Text is modelled character by character: a Python str is a TLA+ string, *)
(* a character is a string of length 1.  Optional[T] is a sequence of      *)
(* length 0 (None) or 1.  A float price is kept as an integer number of    *)
(* centavos: the price pattern admits exactly two fraction digits.         *)
(***************************************************************************)
EXTENDS Integers, Sequences, FiniteSets, TLC

\* ------------------------------------------------------------------------
\* Python str / re primitives used by the source
\* ------------------------------------------------------------------------

LowerAlpha == "abcdefghijklmnopqrstuvwxyz"
UpperAlpha == "ABCDEFGHIJKLMNOPQRSTUVWXYZ"

None == <<>>
Some(v) == <<v>>

\* the least element of a non-empty set of integers: the leftmost match of a scan
Least(S) == CHOOSE k \in S : \A m \in S : k <= m

\* s[i-1] of Python, 1-based here
At(s, i) == SubSeq(s, i, i)

\* s[i-1:] of Python: the suffix that starts at character i
From(s, i) == SubSeq(s, i, Len(s))

\* s[:n] of Python
Upto(s, n) == SubSeq(s, 1, n)

IsDigit(c) == c \in {"0", "1", "2", "3", "4", "5", "6", "7", "8", "9"}

\* \s of re and the characters str.strip() / str.split() remove (ASCII)
IsSpace(c) == c \in {" ", "\t", "\n", "\r", "\f"}

IsLower(c) == \E i \in 1..26 : At(LowerAlpha, i) = c
IsUpper(c) == \E i \in 1..26 : At(UpperAlpha, i) = c

\* \w of re (ASCII)
IsWordChar(c) == IsLower(c) \/ IsUpper(c) \/ IsDigit(c) \/ c = "_"

\* the case mappings of str.upper() and str.lower() (ASCII), as tables
ToUpper == [c \in {At(LowerAlpha, i) : i \in 1..26} |->
               At(UpperAlpha, CHOOSE i \in 1..26 : At(LowerAlpha, i) = c)]
ToLower == [c \in {At(UpperAlpha, i) : i \in 1..26} |->
               At(LowerAlpha, CHOOSE i \in 1..26 : At(UpperAlpha, i) = c)]

UpperChar(c) == IF c \in DOMAIN ToUpper THEN ToUpper[c] ELSE c
LowerChar(c) == IF c \in DOMAIN ToLower THEN ToLower[c] ELSE c

RECURSIVE upper(_)
\* str.upper(): character by character (the string is halved to keep the
\* recursion shallow)
upper(s) ==
    IF Len(s) <= 1 THEN UpperChar(s)
    ELSE upper(Upto(s, Len(s) \div 2)) \o upper(From(s, Len(s) \div 2 + 1))

RECURSIVE lower(_)
\* str.lower()
lower(s) ==
    IF Len(s) <= 1 THEN LowerChar(s)
    ELSE lower(Upto(s, Len(s) \div 2)) \o lower(From(s, Len(s) \div 2 + 1))

\* t in s
Contains(s, t) ==
    \E i \in 1..(Len(s) - Len(t) + 1) : SubSeq(s, i, i + Len(t) - 1) = t

\* s.startswith(t, i-1): t occurs in s at character i
StartsAt(s, i, t) == i + Len(t) - 1 <= Len(s) /\ SubSeq(s, i, i + Len(t) - 1) = t

RECURSIVE lstrip(_)
lstrip(s) == IF s # "" /\ IsSpace(At(s, 1)) THEN lstrip(Tail(s)) ELSE s

RECURSIVE rstrip(_)
rstrip(s) ==
    IF s # "" /\ IsSpace(At(s, Len(s))) THEN rstrip(Upto(s, Len(s) - 1)) ELSE s

\* str.strip()
strip(s) == lstrip(rstrip(s))

RECURSIVE SplitOn(_, _)
\* str.split(sep) for a separator of one character
SplitOn(s, sep) ==
    IF \E i \in 1..Len(s) : At(s, i) = sep
    THEN LET i == Least({k \in 1..Len(s) : At(s, k) = sep})
         IN  <<Upto(s, i - 1)>> \o SplitOn(From(s, i + 1), sep)
    ELSE <<s>>

RECURSIVE CollapseSpaces(_)
\* " ".join(s.split()): runs of whitespace become one space, none at the ends
CollapseSpaces(s) ==
    LET t == lstrip(s)
    IN  IF t = "" THEN ""
        ELSE LET n == Least({k \in 1..Len(t) : k = Len(t) \/ IsSpace(At(t, k + 1))})
                 rest == CollapseSpaces(From(t, n + 1))
             IN  IF rest = "" THEN Upto(t, n) ELSE Upto(t, n) \o " " \o rest

\* ------------------------------------------------------------------------
\* normalize_commodity_name
\* ------------------------------------------------------------------------

\* [\x00-\x1F\x7F-\x9F]: the control characters that occur in the inputs
IsControl(c) == c \in {"\t", "\n", "\r", "\f"}

RECURSIVE RemoveControl(_)
\* re.sub(r'[\x00-\x1F\x7F-\x9F]', '', raw_name)
RemoveControl(s) ==
    IF Len(s) <= 1 THEN (IF IsControl(s) THEN "" ELSE s)
    ELSE RemoveControl(Upto(s, Len(s) \div 2)) \o RemoveControl(From(s, Len(s) \div 2 + 1))

\* 1. CORN rules
CornRules(n) ==
    IF Contains(n, "GRITS") /\ Contains(n, "WHITE") THEN Some("Corn Grits White")
    ELSE IF Contains(n, "GRITS") /\ Contains(n, "YELLOW") THEN Some("Corn Grits Yellow")
    ELSE IF Contains(n, "GRITS") /\ Contains(n, "FEED GRADE")
         THEN Some("Corn Grits Feed Grade")
    ELSE IF Contains(n, "CRACKED") THEN Some("Corn Cracked Yellow")
    ELSE IF Contains(n, "COB") /\ (Contains(n, "WHITE") \/ Contains(n, "GLUTINOUS"))
         THEN Some("Corn Cob White")
    ELSE IF Contains(n, "COB") /\ (Contains(n, "YELLOW") \/ Contains(n, "SWEET"))
         THEN Some("Corn Cob Yellow")
    ELSE None

\* 2. RICE rules
RiceRules(n) ==
    IF Contains(n, "SPECIAL") THEN Some("Special White Rice")
    ELSE IF Contains(n, "PREMIUM") THEN Some("Premium Rice")
    ELSE IF Contains(n, "WELL MILLED") THEN Some("Well Milled Rice")
    ELSE IF Contains(n, "REGULAR MILLED") THEN Some("Regular Milled Rice")
    ELSE IF Contains(n, "GLUTINOUS") THEN Some("Glutinous Rice")
    ELSE IF Contains(n, "JASPONICA") \/ Contains(n, "JAPONICA") THEN Some("Jasponica Rice")
    ELSE IF Contains(n, "BASMATI") THEN Some("Basmati Rice")
    ELSE None

\* 3. VEGETABLE variants
VegetableRules(n) ==
    IF Contains(n, "BELL PEPPER") /\ Contains(n, "RED") THEN Some("Bell Pepper Red")
    ELSE IF Contains(n, "BELL PEPPER") /\ Contains(n, "GREEN") THEN Some("Bell Pepper Green")
    ELSE IF Contains(n, "CABBAGE") /\ Contains(n, "SCORPIO") THEN Some("Cabbage Scorpio")
    ELSE IF Contains(n, "CABBAGE") /\ Contains(n, "RARE BALL") THEN Some("Cabbage Rare Ball")
    ELSE IF Contains(n, "CABBAGE") /\ Contains(n, "WONDER BALL")
         THEN Some("Cabbage Wonder Ball")
    ELSE IF Contains(n, "ONION") /\ Contains(n, "RED") THEN Some("Red Onion")
    ELSE IF Contains(n, "ONION") /\ Contains(n, "WHITE") THEN Some("White Onion")
    ELSE IF Contains(n, "CHILLI") /\ (Contains(n, "RED") \/ Contains(n, "TINGALA"))
         THEN Some("Chilli Red")
    ELSE IF Contains(n, "CHILLI") /\ (Contains(n, "GREEN") \/ Contains(n, "PANIGANG"))
         THEN Some("Chilli Green")
    ELSE None

\* 4. FISH rules
FishRules(n) ==
    IF Contains(n, "BANGUS") THEN Some("Bangus")
    ELSE IF Contains(n, "TILAPIA") THEN Some("Tilapia")
    ELSE IF Contains(n, "GALUNGGONG") THEN Some("Galunggong")
    ELSE IF Contains(n, "ALUMAHAN") THEN Some("Alumahan")
    ELSE IF Contains(n, "SQUID") THEN Some("Squid")
    ELSE IF Contains(n, "SALMON BELLY") THEN Some("Salmon Belly")
    ELSE IF Contains(n, "SALMON HEAD") THEN Some("Salmon Head")
    ELSE IF Contains(n, "PAMPANO") THEN Some("Pampano")
    ELSE None

\* 5. MEAT rules
MeatRules(n) ==
    IF Contains(n, "WHOLE CHICKEN") THEN Some("Whole Chicken")
    ELSE IF Contains(n, "CHICKEN EGG") THEN Some("Chicken Egg")
    ELSE IF Contains(n, "BEEF BRISKET") THEN Some("Beef Brisket")
    ELSE IF Contains(n, "PORK BELLY") THEN Some("Pork Belly")
    ELSE IF Contains(n, "PORK CHOP") THEN Some("Pork Chop")
    ELSE None

\* 6. OTHER BASICS
OtherBasicRules(n) ==
    IF Contains(n, "COOKING OIL")
    THEN (IF Contains(n, "PALM") THEN Some("Cooking Oil (Palm)")
          ELSE IF Contains(n, "COCONUT") THEN Some("Cooking Oil (Coconut)")
          ELSE Some("Cooking Oil"))
    ELSE IF Contains(n, "SUGAR") /\ Contains(n, "REFINED") THEN Some("Sugar (Refined)")
    ELSE IF Contains(n, "SUGAR") /\ Contains(n, "WASHED") THEN Some("Sugar (Washed)")
    ELSE IF Contains(n, "SUGAR") /\ Contains(n, "BROWN") THEN Some("Sugar (Brown)")
    ELSE IF Contains(n, "SALT") /\ Contains(n, "IODIZED") THEN Some("Salt (Iodized)")
    ELSE IF Contains(n, "SALT") /\ Contains(n, "ROCK") THEN Some("Salt (Rock)")
    ELSE None

\* the rule sets in source order, each gated by the category; the first rule
\* that fires returns, a gated set with no firing rule falls through to the next
SpecificRules(upper_name, upper_cat) ==
    LET corn  == IF Contains(upper_cat, "CORN") THEN CornRules(upper_name) ELSE None
        rice  == IF Contains(upper_cat, "RICE") THEN RiceRules(upper_name) ELSE None
        veg   == IF Contains(upper_cat, "VEGETABLES") \/ Contains(upper_cat, "SPICES")
                 THEN VegetableRules(upper_name) ELSE None
        fish  == IF Contains(upper_cat, "FISH") THEN FishRules(upper_name) ELSE None
        meat  == IF Contains(upper_cat, "MEAT") \/ Contains(upper_cat, "POULTRY")
                 THEN MeatRules(upper_name) ELSE None
        other == IF Contains(upper_cat, "OTHER BASIC")
                 THEN OtherBasicRules(upper_name) ELSE None
    IN  IF corn # None THEN corn
        ELSE IF rice # None THEN rice
        ELSE IF veg # None THEN veg
        ELSE IF fish # None THEN fish
        ELSE IF meat # None THEN meat
        ELSE other

RECURSIVE RemoveParens(_)
\* re.sub(r'\((.*?)\)', '', s): every "(" with a ")" after it, up to the nearest
RemoveParens(s) ==
    IF \E i \in 1..Len(s) : At(s, i) = "(" /\ \E j \in (i + 1)..Len(s) : At(s, j) = ")"
    THEN LET i == Least({k \in 1..Len(s) : At(s, k) = "("})
             j == Least({k \in (i + 1)..Len(s) : At(s, k) = ")"})
         IN  Upto(s, i - 1) \o RemoveParens(From(s, j + 1))
    ELSE s

remove_words ==
    << "Magnolia", "Bounty Fresh", "Unbranded", "Fresh", "Fully Dressed",
       "Jolly Brand", "Jolly", "Palm Olein", "Spring", "Minola", "Brand",
       "Local", "Imported", "frozen", "chilled", "whole round", "medium", "large",
       "small", "lean meat", "tapadera", "meat with bones", "food grade",
       "feed grade" >>

\* \bword\b matches s at character i, case-insensitively (ls is lower(s))
WordAt(s, ls, i, lw) ==
    /\ StartsAt(ls, i, lw)
    /\ (i = 1 \/ ~IsWordChar(At(s, i - 1)))
    /\ (i + Len(lw) > Len(s) \/ ~IsWordChar(At(s, i + Len(lw))))

RECURSIVE RemoveWord(_, _)
\* re.sub(rf'\b{word}\b', '', s, flags=re.IGNORECASE), lw being word.lower()
RemoveWord(s, lw) ==
    LET ls      == lower(s)
        matches == {k \in 1..Len(s) : WordAt(s, ls, k, lw)}
    IN  IF matches # {}
        THEN LET i == Least(matches)
             IN  Upto(s, i - 1) \o RemoveWord(From(s, i + Len(lw)), lw)
        ELSE s

RECURSIVE RemoveWords(_, _)
\* for word in remove_words: name = re.sub(...), from the k-th word on (nothing
\* is left to remove from an empty name)
RemoveWords(s, k) ==
    IF s = "" \/ k > Len(remove_words) THEN s
    ELSE RemoveWords(RemoveWord(s, lower(remove_words[k])), k + 1)

\* every character of s[i-1 : j] satisfies the class
AllDigits(s, i, j) == \A k \in i..j : IsDigit(At(s, k))
AllDashSpace(s, i, j) == \A k \in i..j : At(s, k) = "-" \/ IsSpace(At(s, k))
AllSpace(s, i, j) == \A k \in i..j : IsSpace(At(s, k))

unit_words == <<"pcs", "kg", "g", "ml", "liter", "bottle">>

\* \d+[-\s]*\d*\s*(pcs|kg|g|ml|liter|bottle) matches s at character p
UnitPhraseAt(s, ls, p) ==
    \E a \in p..Len(s) :
        /\ AllDigits(s, p, a)
        /\ \E b \in a..Len(s) :
            /\ AllDashSpace(s, a + 1, b)
            /\ \E c \in b..Len(s) :
                /\ AllDigits(s, b + 1, c)
                /\ \E d \in c..Len(s) :
                    /\ AllSpace(s, c + 1, d)
                    /\ \E u \in 1..Len(unit_words) : StartsAt(ls, d + 1, unit_words[u])

\* re.sub(r'\d+[-\s]*\d*\s*(pcs|kg|g|ml|liter|bottle).*', '', s, re.IGNORECASE):
\* the leftmost match runs to the end of the string
RemoveUnits(s) ==
    LET ls      == lower(s)
        matches == {k \in 1..Len(s) : UnitPhraseAt(s, ls, k)}
    IN  IF matches # {} THEN Upto(s, Least(matches) - 1) ELSE s

RECURSIVE StripChars(_, _)
\* str.strip(chars)
StripChars(s, chars) ==
    IF s # "" /\ At(s, 1) \in chars THEN StripChars(Tail(s), chars)
    ELSE IF s # "" /\ At(s, Len(s)) \in chars THEN StripChars(Upto(s, Len(s) - 1), chars)
    ELSE s

normalize_commodity_name(raw_name, category) ==
    LET name_clean == CollapseSpaces(RemoveControl(raw_name))
        upper_name == upper(name_clean)
        upper_cat  == upper(category)
        specific   == SpecificRules(upper_name, upper_cat)
    IN  IF specific # None THEN specific[1]
        ELSE LET name == RemoveUnits(RemoveWords(RemoveParens(name_clean), 1))
             IN  StripChars(CollapseSpaces(name), {" ", "-", ","})

\* ------------------------------------------------------------------------
\* determine_origin, determine_unit, parse_smart_row
\* ------------------------------------------------------------------------

\* determine_origin looking at the line alone
determine_origin_LineOnly(raw_line, category) ==
    IF Contains(upper(raw_line), "IMPORTED") THEN "Imported" ELSE "Local"

determine_origin(raw_line, category) ==
    LET line_upper == upper(raw_line)
        cat_upper  == upper(category)
    IN  IF Contains(line_upper, "IMPORTED") \/ Contains(cat_upper, "IMPORTED")
        THEN "Imported"
        ELSE "Local"

kg_words ==
    <<"kg", "kilo", "broken", "meat", "fish", "vegetable", "fruit", "spice",
      "sugar", "salt", "corn">>

\* determine_unit falling back to kg where the source returns None
determine_unit_DefaultKg(raw_line, category) ==
    LET line_lower == lower(raw_line)
    IN  IF \/ Contains(line_lower, "bottle")
           \/ Contains(line_lower, "liter")
           \/ Contains(line_lower, "ml")
        THEN Some("L")
        ELSE IF Contains(lower(category), "egg") \/ Contains(line_lower, "pc")
        THEN Some("pc")
        ELSE Some("kg")

determine_unit(raw_line, category) ==
    LET line_lower == lower(raw_line)
    IN  IF \/ Contains(line_lower, "bottle")
           \/ Contains(line_lower, "liter")
           \/ Contains(line_lower, "ml")
        THEN Some("L")
        ELSE IF Contains(lower(category), "egg") \/ Contains(line_lower, "pc")
        THEN Some("pc")
        ELSE IF \E k \in 1..Len(kg_words) : Contains(line_lower, kg_words[k])
        THEN Some("kg")
        ELSE None

RECURSIVE GroupsThenFraction(_)
\* (?:,\d{3})*\.\d{2} matches all of r
GroupsThenFraction(r) ==
    IF Len(r) = 3
    THEN At(r, 1) = "." /\ AllDigits(r, 2, 3)
    ELSE /\ Len(r) > 4
         /\ At(r, 1) = ","
         /\ AllDigits(r, 2, 4)
         /\ GroupsThenFraction(From(r, 5))

\* \d{1,3}(?:,\d{3})*\.\d{2} matches all of t
IsPriceNumber(t) ==
    \E n \in 1..3 : n <= Len(t) /\ AllDigits(t, 1, n) /\ GroupsThenFraction(From(t, n + 1))

\* (\d{1,3}(?:,\d{3})*\.\d{2}|\$n/a\$|-) matches all of t
IsPriceToken(t) == IsPriceNumber(t) \/ t = "$n/a$" \/ t = "-"

\* (token)\s*$ matches line from character i on: the token is what is left of
\* the rest of the line once its trailing whitespace is taken off
TokenToEnd(line, i) == i <= Len(line) /\ IsPriceToken(rstrip(From(line, i)))

\* (?:^|\s)(token)\s*$ matches with match.start() = p (0-based); the result is
\* the first character of group 1 (0 when there is no match at p)
PriceMatchAt(line, p) ==
    IF p = 0 /\ TokenToEnd(line, 1) THEN 1
    ELSE IF p < Len(line) /\ IsSpace(At(line, p + 1)) /\ TokenToEnd(line, p + 2) THEN p + 2
    ELSE 0

\* re.search(...): the leftmost match, as [start, group1], or None
PriceSearch(line) ==
    LET matches == {k \in 0..Len(line) : PriceMatchAt(line, k) # 0}
    IN  IF matches # {}
        THEN LET p == Least(matches)
             IN  Some([start |-> p, group1 |-> rstrip(From(line, PriceMatchAt(line, p)))])
        ELSE None

RECURSIVE RemoveAll(_, _)
\* s.replace(t, "")
RemoveAll(s, t) ==
    IF Contains(s, t)
    THEN LET i == Least({k \in 1..Len(s) : StartsAt(s, k, t)})
         IN  Upto(s, i - 1) \o RemoveAll(From(s, i + Len(t)), t)
    ELSE s

DigitValue(c) == CHOOSE d \in 0..9 : At("0123456789", d + 1) = c

RECURSIVE IntValue(_)
\* the number a string of decimal digits denotes
IntValue(ds) ==
    IF ds = "" THEN 0
    ELSE 10 * IntValue(Upto(ds, Len(ds) - 1)) + DigitValue(At(ds, Len(ds)))

\* float(price_str) for a string ddd.dd, in centavos
FloatCents(price_str) ==
    100 * IntValue(Upto(price_str, Len(price_str) - 3))
        + IntValue(From(price_str, Len(price_str) - 1))

\* the conversion with only the dash taken as a sentinel: the no-data marker
\* fails to convert and the price falls back to zero
ConvertPrice_NoDataAsZero(price_str) ==
    IF price_str = "-" THEN None
    ELSE IF price_str = "$n/a$" THEN Some(0)
    ELSE Some(FloatCents(price_str))

\* 5. Convert Price
ConvertPrice(price_str) ==
    IF price_str \notin {"-", "$n/a$"} THEN Some(FloatCents(price_str)) ELSE None

\* 6. Clean Category
CleanCategory(current_category) ==
    strip(RemoveAll(RemoveAll(current_category, "IMPORTED "), "LOCAL "))

PriceRow(category, commodity, origin, unit, price) ==
    [category |-> category, commodity |-> commodity, origin |-> origin,
     unit |-> unit, price |-> price]

\* Optional[PriceRow]
parse_smart_row(line0, category) ==
    LET line        == strip(line0)
        price_match == PriceSearch(line)
    IN  IF price_match = None THEN None
        ELSE LET price_str     == RemoveAll(price_match[1].group1, ",")
                 raw_name_part == strip(Upto(line, price_match[1].start))
                 origin        == determine_origin(raw_name_part, category)
                 clean_name    == normalize_commodity_name(raw_name_part, category)
             IN  IF Len(clean_name) < 2 THEN None
                 ELSE Some(PriceRow(CleanCategory(category),
                                    clean_name,
                                    origin,
                                    determine_unit(raw_name_part, category),
                                    ConvertPrice(price_str)))

\* ------------------------------------------------------------------------
\* parse_text_to_json: market extraction
\* ------------------------------------------------------------------------

KNOWN_CATEGORIES ==
    << "IMPORTED COMMERCIAL RICE", "LOCAL COMMERCIAL RICE", "CORN PRODUCTS",
       "FISH PRODUCTS", "BEEF MEAT PRODUCTS", "PORK MEAT PRODUCTS",
       "OTHER LIVESTOCK MEAT PRODUCTS", "POULTRY PRODUCTS",
       "LOWLAND VEGETABLES", "HIGHLAND VEGETABLES", "SPICES",
       "FRUITS", "OTHER BASIC COMMODITIES" >>

UNKNOWN == "UNKNOWN"

\* the first position from i on that holds no whitespace (Len(s) + 1 at the end)
SkipSpaces(s, i) == Least({j \in i..(Len(s) + 1) : j = Len(s) + 1 \/ ~IsSpace(At(s, j))})

\* the first position from i on that holds no digit
SkipDigits(s, i) == Least({j \in i..(Len(s) + 1) : j = Len(s) + 1 \/ ~IsDigit(At(s, j))})

\* (?:d\)|Covered markets:) under IGNORECASE at character p: the position after
\* the marker, 0 when neither is there (ltext is the text in lower case)
MarketLabelEnd(ltext, p) ==
    IF At(ltext, p) = "d"
    THEN (IF StartsAt(ltext, p, "d)") THEN p + 2 ELSE 0)
    ELSE IF At(ltext, p) = "c"
    THEN (IF StartsAt(ltext, p, "covered markets:") THEN p + 16 ELSE 0)
    ELSE 0

\* (1\..+?)(?:Page|\Z) under DOTALL and IGNORECASE from character q: the last
\* character of group 1, 0 when there is no match
MarketBlockEnd(ltext, q) ==
    IF StartsAt(ltext, q, "1.") /\ q + 2 <= Len(ltext)
    THEN Least({e \in (q + 2)..Len(ltext) : e = Len(ltext) \/ StartsAt(ltext, e + 1, "page")})
    ELSE 0

\* the whole pattern matches starting at character p: <<first, last>> of group 1
MarketMatchAt(ltext, p) ==
    LET after == MarketLabelEnd(ltext, p)
    IN  IF after = 0 THEN None
        ELSE LET q == SkipSpaces(ltext, after)
                 e == MarketBlockEnd(ltext, q)
             IN  IF e = 0 THEN None ELSE Some(<<q, e>>)

\* market_match.group(1) of re.search, as Optional[str]
MarketSearch(text) ==
    LET ltext   == lower(text)
        matches == {k \in 1..Len(text) : MarketMatchAt(ltext, k) # None}
    IN  IF matches # {}
        THEN LET g == MarketMatchAt(ltext, Least(matches))[1]
             IN  Some(SubSeq(text, g[1], g[2]))
        ELSE None

\* \s*\d+\.\s* matches s at character p: the position after the match, 0 if none
ListMarkerEnd(s, p) ==
    LET w == SkipSpaces(s, p)
        d == SkipDigits(s, w)
    IN  IF d > w /\ d <= Len(s) /\ At(s, d) = "." THEN SkipSpaces(s, d + 1) ELSE 0

RECURSIVE SplitOnListMarkers(_)
\* re.split(r'\s*\d+\.\s*', s)
SplitOnListMarkers(s) ==
    LET matches == {k \in 1..Len(s) : ListMarkerEnd(s, k) # 0}
    IN  IF matches # {}
        THEN LET p == Least(matches)
             IN  <<Upto(s, p - 1)>> \o SplitOnListMarkers(From(s, ListMarkerEnd(s, p)))
        ELSE <<s>>

RECURSIVE NewlinesToSpaces(_)
\* re.sub(r'[\n\r]', ' ', m)
NewlinesToSpaces(s) ==
    IF Len(s) <= 1 THEN (IF s \in {"\n", "\r"} THEN " " ELSE s)
    ELSE NewlinesToSpaces(Upto(s, Len(s) \div 2))
             \o NewlinesToSpaces(From(s, Len(s) \div 2 + 1))

\* the condition of the list comprehension: m.strip() and len(m) > 3
KeepMarket(m) == strip(m) # "" /\ Len(m) > 3

RECURSIVE CleanMarkets(_)
\* [re.sub(...).strip() for m in raw_markets if m.strip() and len(m) > 3]
CleanMarkets(raw_markets) ==
    IF raw_markets = <<>> THEN <<>>
    ELSE (IF KeepMarket(Head(raw_markets))
          THEN <<strip(NewlinesToSpaces(Head(raw_markets)))>>
          ELSE <<>>) \o CleanMarkets(Tail(raw_markets))

RECURSIVE DictFromKeys(_)
\* list(dict.fromkeys(xs)): each element once, in first-seen order
DictFromKeys(xs) ==
    IF xs = <<>> THEN <<>>
    ELSE LET init == DictFromKeys(SubSeq(xs, 1, Len(xs) - 1))
             last == xs[Len(xs)]
         IN  IF \E i \in 1..Len(init) : init[i] = last THEN init ELSE Append(init, last)

\* lines 255-264
ExtractMarkets(text) ==
    LET market_match == MarketSearch(text)
    IN  IF market_match = None THEN <<>>
        ELSE DictFromKeys(CleanMarkets(SplitOnListMarkers(market_match[1])))

\* ------------------------------------------------------------------------
\* parse_text_to_json: the pass over the lines
\* ------------------------------------------------------------------------

\* category detection without the break: the last label found is kept
DetectCategory_LastMatch(line) ==
    LET line_upper == upper(line)
        found      == {k \in 1..Len(KNOWN_CATEGORIES) :
                          Contains(line_upper, KNOWN_CATEGORIES[k])}
    IN  IF found # {} THEN CHOOSE k \in found : \A m \in found : m <= k ELSE 0

\* Category Detection: the index of the first label of KNOWN_CATEGORIES that
\* line.upper() contains, 0 when it contains none
DetectCategory(line) ==
    LET line_upper == upper(line)
        found      == {k \in 1..Len(KNOWN_CATEGORIES) :
                          Contains(line_upper, KNOWN_CATEGORIES[k])}
    IN  IF found # {} THEN Least(found) ELSE 0

noise_markers ==
    <<"Source:", "Note:", "Prevailing", "Retail Price", "Page", "Department of">>

\* the noise check left out
IsNoise_Never(line) == FALSE

\* any(x in line for x in [...])
IsNoise(line) == \E k \in 1..Len(noise_markers) : Contains(line, noise_markers[k])

\* the category guard left out
HasCategory_Always(category) == TRUE

\* if current_category != "UNKNOWN"
HasCategory(category) == category # UNKNOWN

\* existing.category == row.category and existing.commodity == row.commodity
\* and existing.origin == row.origin
SameKey(existing, r) ==
    /\ existing.category = r.category
    /\ existing.commodity = r.commodity
    /\ existing.origin = r.origin

\* the merge without its fill: the existing row is kept as it is
MergePrice_NeverFill(existing, r) == existing

\* the merge taking the later price whenever there is one
MergePrice_Overwrite(existing, r) ==
    IF r.price # None THEN [existing EXCEPT !.price = r.price] ELSE existing

\* if existing.price is None and row.price is not None: existing.price = row.price
MergePrice(existing, r) ==
    IF existing.price = None /\ r.price # None
    THEN [existing EXCEPT !.price = r.price]
    ELSE existing

\* the duplicate check left out
AddRow_AlwaysAppend(data, r) == Append(data, r)

\* the duplicate check: the first row with the key of r takes r's price if it
\* has none; r is appended when no row has its key
AddRow(data, r) ==
    LET found == {k \in 1..Len(data) : SameKey(data[k], r)}
    IN  IF found # {}
        THEN [data EXCEPT ![Least(found)] = MergePrice(data[Least(found)], r)]
        ELSE Append(data, r)

\* ------------------------------------------------------------------------
\* Inputs
\* ------------------------------------------------------------------------

MaxLines == 3
MaxMarkets == 3

\* the lines a text is made of: headers (one in mixed case that ends in a price,
\* one that holds two labels and a noise marker), a line with no price, priced
\* and unpriced lines that normalize to the same commodity, a noise line that
\* ends in a price
LinePool ==
    { "LOCAL COMMERCIAL RICE",
      "IMPORTED COMMERCIAL RICE",
      "Lowland Vegetables 50.00",
      "Page 3 FRUITS AND SPICES",
      "RICE",
      "Well Milled Rice 45.50",
      "Well Milled Rice $n/a$",
      "Bell Pepper (Red) 120.00",
      "Bell Pepper (Red) -",
      "Imported Bell Pepper (Red) 1 kg 1,095.00",
      "Prevailing Retail Price 45.50" }

\* the parts of a text with a market block
MarketLabels == {"Covered markets: ", "d)\n", "COVERED MARKETS:"}
MarketPool == {"Market A", "Market B", "Abc", "New\nMarket"}
MarketEnds == {" Page 2", "\n\n"}

SeqsUpTo(S, lo, hi) == UNION {[1..n -> S] : n \in lo..hi}

RECURSIVE JoinLines(_)
JoinLines(ls) ==
    IF Len(ls) = 1 THEN ls[1]
    ELSE JoinLines(SubSeq(ls, 1, Len(ls) - 1)) \o "\n" \o ls[Len(ls)]

RECURSIVE NumberedList(_)
\* "1. a 2. b 3. c"
NumberedList(ms) ==
    IF ms = <<>> THEN ""
    ELSE LET init == NumberedList(SubSeq(ms, 1, Len(ms) - 1))
         IN  (IF init = "" THEN "" ELSE init \o " ")
                 \o At("123456789", Len(ms)) \o ". " \o ms[Len(ms)]

RowTexts == {JoinLines(ls) : ls \in SeqsUpTo(LinePool, 1, MaxLines)}

MarketTexts ==
    {label \o NumberedList(ms) \o end :
        label \in MarketLabels, ms \in SeqsUpTo(MarketPool, 0, MaxMarkets), end \in MarketEnds}

InputTexts == RowTexts \cup MarketTexts

\* ------------------------------------------------------------------------
\* The state machine
\* ------------------------------------------------------------------------

VARIABLES
    raw_text,            \* the argument of parse_text_to_json
    lines,               \* raw_text.split('\n')
    idx,                 \* how many lines the for loop has taken
    current_category,
    price_data_list,
    market_list,
    row,                 \* the last value of row (Optional[PriceRow])
    pc                   \* "markets", "rows", "done"

vars == <<raw_text, lines, idx, current_category, price_data_list, market_list, row, pc>>

\* lines 250-253
Init ==
    /\ raw_text \in InputTexts
    /\ lines = SplitOn(raw_text, "\n")
    /\ idx = 0
    /\ current_category = UNKNOWN
    /\ price_data_list = <<>>
    /\ market_list = <<>>
    /\ row = None
    /\ pc = "markets"

\* lines 255-264
MarketExtraction ==
    /\ pc = "markets"
    /\ market_list' = ExtractMarkets(raw_text)
    /\ pc' = "rows"
    /\ UNCHANGED <<raw_text, lines, idx, current_category, price_data_list, row>>

\* lines 267-297: one iteration of the for loop
RowProcessing ==
    /\ pc = "rows"
    /\ idx < Len(lines)
    /\ idx' = idx + 1
    /\ LET line == strip(lines[idx + 1])
           cat  == DetectCategory(line)
       IN  IF line = ""
           THEN UNCHANGED <<current_category, price_data_list, row>>
           ELSE IF cat # 0
           THEN /\ current_category' = KNOWN_CATEGORIES[cat]
                /\ UNCHANGED <<price_data_list, row>>
           ELSE IF IsNoise(line)
           THEN UNCHANGED <<current_category, price_data_list, row>>
           ELSE IF HasCategory(current_category)
           THEN /\ row' = parse_smart_row(line, current_category)
                /\ price_data_list' =
                       IF row' # None THEN AddRow(price_data_list, row'[1])
                       ELSE price_data_list
                /\ UNCHANGED current_category
           ELSE UNCHANGED <<current_category, price_data_list, row>>
    /\ UNCHANGED <<raw_text, lines, market_list, pc>>

\* lines 299-302
Return ==
    /\ pc = "rows"
    /\ idx = Len(lines)
    /\ pc' = "done"
    /\ UNCHANGED <<raw_text, lines, idx, current_category, price_data_list, market_list, row>>

Next == MarketExtraction \/ RowProcessing \/ Return

Spec == Init /\ [][Next]_vars

\* ------------------------------------------------------------------------
\* Properties
\* ------------------------------------------------------------------------

\* the line the loop takes next, and the one it took last, trimmed
NextLine == strip(lines[idx + 1])
LastLine == strip(lines[idx])

LowerLabels == [k \in 1..Len(KNOWN_CATEGORIES) |-> lower(KNOWN_CATEGORIES[k])]

\* the line holds one of the 13 category labels, whatever the case
HoldsLabel(line) ==
    LET l == lower(line)
    IN  \E k \in 1..Len(KNOWN_CATEGORIES) : Contains(l, LowerLabels[k])

\* the first label, in vocabulary order, that the line holds
FirstLabel(line) ==
    LET l == lower(line)
    IN  KNOWN_CATEGORIES[Least({k \in 1..Len(KNOWN_CATEGORIES) :
                                   Contains(l, LowerLabels[k])})]

NoiseMarkers == {"Source:", "Note:", "Prevailing", "Retail Price", "Page", "Department of"}

MatchesNoise(line) == \E m \in NoiseMarkers : Contains(line, m)

\* a line that is neither blank, nor a header, nor noise
IsDataLine(line) == line # "" /\ ~HoldsLabel(line) /\ ~MatchesNoise(line)

EndsWith(s, t) == Len(s) >= Len(t) /\ From(s, Len(s) - Len(t) + 1) = t

KeyOf(r) == <<r.category, r.commodity, r.origin>>

RECURSIVE LabelAfter(_)
\* the label of the last header among the first n lines, UNKNOWN before any
LabelAfter(n) ==
    IF n = 0 THEN UNKNOWN
    ELSE IF HoldsLabel(lines[n]) THEN FirstLabel(lines[n])
    ELSE LabelAfter(n - 1)

\* the row that line i stands for: none for a blank line, a header, a noise
\* line and a line before the first header
RowOf(i) ==
    IF IsDataLine(strip(lines[i])) /\ LabelAfter(i - 1) # UNKNOWN
    THEN parse_smart_row(lines[i], LabelAfter(i - 1))
    ELSE None

RECURSIVE RowsUpTo(_)
RowsUpTo(n) == IF n = 0 THEN <<>> ELSE Append(RowsUpTo(n - 1), RowOf(n))

\* a label without its leading scope qualifier
WithoutPrefix(label) ==
    IF StartsAt(label, 1, "IMPORTED ") THEN From(label, 10)
    ELSE IF StartsAt(label, 1, "LOCAL ") THEN From(label, 7)
    ELSE label

\* C1: at every point of the pass, no two rows of price_data share the same
\* (category, commodity, origin) triple.
C1_Uniqueness ==
    \A i, j \in 1..Len(price_data_list) :
        i # j => KeyOf(price_data_list[i]) # KeyOf(price_data_list[j])

\* two different data lines have been taken after a header and one row stands
\* for both
C1_Witness ==
    /\ idx = 3
    /\ lines[2] # lines[3]
    /\ RowOf(2) # None
    /\ RowOf(3) # None
    /\ Len(price_data_list) = 1

\* C2: when two lines normalize to the same triple and exactly one of the lines
\* of that triple carries a price, the result holds one row for the triple and
\* its price is that value, whichever line comes first.
C2_MergeMonotonicity ==
    pc = "done" =>
        \A rows \in {RowsUpTo(Len(lines))} :
        LET Twin(i, j) == rows[i] # None /\ rows[j] # None
                              /\ KeyOf(rows[i][1]) = KeyOf(rows[j][1])
        IN  \A i, j \in 1..Len(lines) :
                ( /\ i # j
                  /\ Twin(i, j)
                  /\ rows[i][1].price # None
                  /\ \A k \in 1..Len(lines) :
                         (k # i /\ Twin(i, k)) => rows[k][1].price = None )
                => LET hits == {n \in 1..Len(price_data_list) :
                                   KeyOf(price_data_list[n]) = KeyOf(rows[i][1])}
                   IN  /\ Cardinality(hits) = 1
                       /\ \A n \in hits : price_data_list[n].price = rows[i][1].price

\* the unpriced line came first and the later line brought the price
C2_Witness ==
    /\ pc = "done"
    /\ Len(lines) = 3
    /\ RowOf(2) # None
    /\ RowOf(3) # None
    /\ RowOf(2)[1].price = None
    /\ RowOf(3)[1].price # None
    /\ KeyOf(RowOf(2)[1]) = KeyOf(RowOf(3)[1])
    /\ Len(price_data_list) = 1
    /\ price_data_list[1].price = RowOf(3)[1].price

\* the three lines of scenario A have just been taken
ScenarioA ==
    /\ idx >= 3
    /\ lines[idx - 2] = "LOCAL COMMERCIAL RICE"
    /\ lines[idx - 1] = "RICE"
    /\ lines[idx] = "Well Milled Rice 45.50"

ScenarioARow(unit) ==
    PriceRow("COMMERCIAL RICE", "Well Milled Rice", "Local", unit, Some(4550))

\* what scenario A yields, the unit left open
ScenarioAYields(unit) ==
    /\ row = Some(ScenarioARow(unit))
    /\ Cardinality({n \in 1..Len(price_data_list) :
                       KeyOf(price_data_list[n]) = KeyOf(ScenarioARow(unit))}) = 1
    /\ (idx = 3 => price_data_list = <<ScenarioARow(unit)>>)

\* C3 as stated: scenario A yields one row COMMERCIAL RICE / Well Milled Rice /
\* Local with price 45.50 and unit kg.
C3_ScenarioA_UnitKg == ScenarioA => ScenarioAYields(Some("kg"))

\* C3 as amended: scenario A yields that one row with the unit absent (none of
\* the unit keywords occurs in "Well Milled Rice").
C3_ScenarioA_UnitAbsent == ScenarioA => ScenarioAYields(None)

C3_Witness ==
    /\ pc = "done"
    /\ raw_text = "LOCAL COMMERCIAL RICE\nRICE\nWell Milled Rice 45.50"
    /\ Len(price_data_list) = 1

\* C4: as long as no line holding a category label has been taken,
\* current_category is the UNKNOWN sentinel and price_data is empty.
\* (stated by contraposition: a known category or a row means that a line
\* already taken holds a label)
C4_NothingBeforeFirstHeader ==
    ~(current_category = UNKNOWN /\ price_data_list = <<>>)
        => \E i \in 1..idx : HoldsLabel(lines[i])

\* a well-formed priced line has been taken before any header
C4_Witness ==
    /\ idx >= 1
    /\ \A i \in 1..idx : ~HoldsLabel(lines[i])
    /\ IsDataLine(LastLine)
    /\ PriceSearch(LastLine) # None
    /\ parse_smart_row(LastLine, "LOCAL COMMERCIAL RICE") # None

\* C5 as stated: taking a line that matches a noise marker changes neither the
\* rows nor current_category.
C5_NoiseLineNoEffect ==
    [][ (pc = "rows" /\ idx < Len(lines) /\ MatchesNoise(NextLine))
            => UNCHANGED <<price_data_list, current_category>> ]_vars

\* C5 as amended: taking a line that matches a noise marker and holds no
\* category label changes neither the rows nor current_category.
C5_NoiseLineWithoutLabelNoEffect ==
    [][ (pc = "rows" /\ idx < Len(lines) /\ MatchesNoise(NextLine) /\ ~HoldsLabel(NextLine))
            => UNCHANGED <<price_data_list, current_category>> ]_vars

\* a noise line that ends in a price has been taken under a known category and
\* there is still no row
C5_Witness ==
    /\ idx >= 2
    /\ current_category # UNKNOWN
    /\ MatchesNoise(LastLine)
    /\ ~HoldsLabel(LastLine)
    /\ PriceSearch(LastLine) # None
    /\ price_data_list = <<>>

RECURSIVE TrimmedLongEntries(_)
\* the entries, trimmed, that are longer than 3 characters
TrimmedLongEntries(entries) ==
    IF entries = <<>> THEN <<>>
    ELSE LET name == strip(NewlinesToSpaces(Head(entries)))
         IN  (IF Len(name) > 3 THEN <<name>> ELSE <<>>)
                 \o TrimmedLongEntries(Tail(entries))

\* the markets of C6: the block split on its list markers, each entry trimmed,
\* the entries of more than 3 characters kept, each name once
ClaimedMarkets(text) ==
    IF MarketSearch(text) = None THEN <<>>
    ELSE DictFromKeys(TrimmedLongEntries(SplitOnListMarkers(MarketSearch(text)[1])))

\* C6: covered_markets is the block split on its list markers, trimmed, with
\* only the entries longer than 3 characters, each name once in first-seen
\* order: every returned name has more than 3 characters and none repeats.
C6_CoveredMarkets ==
    pc # "markets" =>
        /\ market_list = ClaimedMarkets(raw_text)
        /\ \A i \in 1..Len(market_list) : Len(market_list[i]) > 3
        /\ \A i, j \in 1..Len(market_list) : i # j => market_list[i] # market_list[j]

\* a line that is parsed and ends in a bare dash or in the no-data marker
SentinelLine(line) == EndsWith(line, "-") \/ EndsWith(line, "$n/a$")

\* C7: a parsed line that ends in a bare dash or in the no-data marker yields
\* no row or a row with no price; it puts no number into price_data.
C7_SentinelPriceAbsent ==
    [][ ( /\ pc = "rows"
          /\ idx < Len(lines)
          /\ IsDataLine(NextLine)
          /\ current_category # UNKNOWN
          /\ SentinelLine(NextLine) )
            => /\ (row' = None \/ row'[1].price = None)
               /\ Len(price_data_list') >= Len(price_data_list)
               /\ \A n \in 1..Len(price_data_list') :
                      price_data_list'[n].price =
                          IF n <= Len(price_data_list) THEN price_data_list[n].price
                          ELSE None ]_vars

\* the no-data marker has given a row with no price
C7_Witness ==
    /\ idx >= 2
    /\ EndsWith(LastLine, "$n/a$")
    /\ row # None
    /\ row[1].price = None
    /\ Len(price_data_list) = 1
    /\ price_data_list[1] = row[1]

\* the text before the price token of a line that has one
NameSegment(line) == strip(Upto(line, PriceSearch(line)[1].start))

\* C8: a row's origin is Imported when its name segment or the current
\* category holds "imported", whatever the case, and Local otherwise; no row
\* is without an origin.
C8_Origin ==
    [][ ( /\ pc = "rows"
          /\ idx < Len(lines)
          /\ IsDataLine(NextLine)
          /\ current_category # UNKNOWN
          /\ row' # None )
            => /\ row'[1].origin =
                      IF \/ Contains(lower(NameSegment(NextLine)), "imported")
                         \/ Contains(lower(current_category), "imported")
                      THEN "Imported"
                      ELSE "Local"
               /\ \E n \in 1..Len(price_data_list') :
                      KeyOf(price_data_list'[n]) = KeyOf(row'[1])
               /\ \A n \in 1..Len(price_data_list') :
                      price_data_list'[n].origin \in {"Local", "Imported"} ]_vars

\* a line with no marker of its own is Imported by its category
C8_Witness ==
    /\ idx >= 2
    /\ current_category = "IMPORTED COMMERCIAL RICE"
    /\ IsDataLine(LastLine)
    /\ ~Contains(lower(LastLine), "imported")
    /\ row # None
    /\ row[1].origin = "Imported"
    /\ price_data_list[Len(price_data_list)] = row[1]

\* C9: a non-empty line that holds a category label yields no row and sets
\* current_category to the first label, in vocabulary order, that it holds; any
\* other line leaves current_category alone, and a row it appends has the label
\* of the last header, without its LOCAL / IMPORTED prefix, as category.
C9_HeaderConsumed ==
    [][ (pc = "rows" /\ idx < Len(lines) /\ NextLine # "")
            => IF HoldsLabel(NextLine)
               THEN /\ current_category' = FirstLabel(NextLine)
                    /\ UNCHANGED <<price_data_list, row>>
               ELSE /\ UNCHANGED current_category
                    /\ Len(price_data_list') > Len(price_data_list)
                           => price_data_list'[Len(price_data_list')].category
                                  = WithoutPrefix(LabelAfter(idx)) ]_vars

\* a header that ends in a price gave no row, the header after it gave its
\* label, stripped, to the row that followed
C9_Witness ==
    /\ idx = 3
    /\ HoldsLabel(lines[1])
    /\ PriceSearch(strip(lines[1])) # None
    /\ lines[2] = "LOCAL COMMERCIAL RICE"
    /\ Len(price_data_list) = 1
    /\ price_data_list[1].category = "COMMERCIAL RICE"

\* C10: no step removes or reorders a row or changes its category, commodity,
\* origin or unit; a price that is present is never changed; a step adds at
\* most one row, at the end.
C10_AppendOnly ==
    [][ /\ Len(price_data_list') \in {Len(price_data_list), Len(price_data_list) + 1}
        /\ \A n \in 1..Len(price_data_list) :
               /\ KeyOf(price_data_list'[n]) = KeyOf(price_data_list[n])
               /\ price_data_list'[n].unit = price_data_list[n].unit
               /\ price_data_list[n].price # None
                      => price_data_list'[n].price = price_data_list[n].price ]_vars

\* a second line of the same triple came with another price and the first
\* price stayed
C10_Witness ==
    /\ idx >= 3
    /\ row # None
    /\ Len(price_data_list) = 1
    /\ KeyOf(row[1]) = KeyOf(price_data_list[1])
    /\ row[1].price # None
    /\ price_data_list[1].price # None
    /\ row[1].price # price_data_list[1].price

====
